---- MODULE Spec2Model ----
(***************************************************************************)
(* Model of src/app.py, the COVID-19 India district dashboard script.      *)
(*                                                                         *)
(* The script is one top-to-bottom run per user interaction: the cached    *)
(* load, the district -> dt_code map, the CSV clean-up, the date and       *)
(* numeric conversions, the sidebar controls, the filter, the summary      *)
(* totals, the choropleth and the severity table.  pc is the position of   *)
(* the run in the script.                                                  *)
(*                                                                         *)
(* Representation.                                                         *)
(*   text     a sequence of one-character strings; None is the absent      *)
(*            value (Python None, pandas NaN in an object column)          *)
(*   number   [nan, inf, v, bool]: v counts halves (v = 3 is 1.5), so that *)
(*            a cell with the fractional digit 0 or 5 is exact, as it is   *)
(*            in binary floating point; inf is 1 or -1 for the two         *)
(*            infinite floats and 0 for a finite one; bool marks the       *)
(*            values True (v = 2) and False (v = 0) of a boolean column    *)
(*   Date     a raw cell is [kind, day, tod]; a converted one is           *)
(*            [nat, day, tod], tod the time of day (0 is midnight)         *)
(***************************************************************************)
EXTENDS Integers, Sequences, FiniteSets

VARIABLES
    pc,                 \* position of the script run
    cache_geojson,      \* st.cache_data: the parsed india.geojson features
    cache_csv,          \* st.cache_data: the rows of districts.csv
    india_districts,    \* the features of this run
    fi,                 \* index of the next feature of the for loop
    district_code_map,  \* dict: trimmed district name -> dt_code
    df,                 \* the data frame of this run
    selected_date,      \* sidebar date picker (a calendar day)
    selected_state,     \* sidebar state selector
    selected_metric,    \* sidebar metric selector
    filtered_df,        \* the filtered rows
    summary,            \* the four st.metric totals
    fig,                \* what the choropleth is given
    alert_table,        \* the top rows of the severity table
    snap,               \* history: df and map as first normalized
    memo                \* history: criteria and outputs of an earlier run

vars == <<pc, cache_geojson, cache_csv, india_districts, fi, district_code_map,
          df, selected_date, selected_state, selected_metric, filtered_df,
          summary, fig, alert_table, snap, memo>>

----------------------------------------------------------------------------
(* Bounds of the model. *)

MaxFeatures == 2
MaxRows == 2
MaxRunRows == 2
MaxAlertRows == 11
MaxMixedRows == 3
MaxConfirmed == 12000

----------------------------------------------------------------------------
(* Values. *)

None == <<"None">>

NaN == [nan |-> TRUE, inf |-> 0, v |-> 0, bool |-> FALSE]

Num(n) == [nan |-> FALSE, inf |-> 0, v |-> 2 * n, bool |-> FALSE]

\* The float of v halves.
Float(v) == [nan |-> FALSE, inf |-> 0, v |-> v, bool |-> FALSE]

\* float("inf") for sign 1, float("-inf") for sign -1.
Infinite(sign) == [nan |-> FALSE, inf |-> sign, v |-> 0, bool |-> FALSE]

\* numpy True and False: 1 and 0 in arithmetic and comparisons.
Bool(b) == [nan |-> FALSE, inf |-> 0, v |-> IF b THEN 2 ELSE 0, bool |-> TRUE]

NaT == [nat |-> TRUE, day |-> 0, tod |-> 0]

Timestamp(d, t) == [nat |-> FALSE, day |-> d, tod |-> t]

EmptyCell == [kind |-> "empty", day |-> 0, tod |-> 0]

TextCell == [kind |-> "text", day |-> 0, tod |-> 0]

DateCell(d, t) == [kind |-> "ts", day |-> d, tod |-> t]

SeqsUpTo(S, n) == UNION {[1..k -> S] : k \in 0..n}

Min(S) == CHOOSE x \in S : \A y \in S : x <= y

Max(S) == CHOOSE x \in S : \A y \in S : x >= y

----------------------------------------------------------------------------
(* str.strip(): leading and trailing whitespace removed.  A character that  *)
(* TLA+ has no escape for is written by its code point.                     *)

\* The characters str.isspace() holds for.
Whitespace ==
    {" ", "\t", "\n", "\r", "\f", "U+000B", "U+001C", "U+001D", "U+001E",
     "U+001F", "U+0085", "U+00A0", "U+1680", "U+2000", "U+2001", "U+2002",
     "U+2003", "U+2004", "U+2005", "U+2006", "U+2007", "U+2008", "U+2009",
     "U+200A", "U+2028", "U+2029", "U+202F", "U+205F", "U+3000"}

RECURSIVE LStripOf(_, _)
LStripOf(s, W) == IF s # <<>> /\ Head(s) \in W THEN LStripOf(Tail(s), W) ELSE s

RECURSIVE RStripOf(_, _)
RStripOf(s, W) ==
    IF s # <<>> /\ s[Len(s)] \in W THEN RStripOf(SubSeq(s, 1, Len(s) - 1), W)
    ELSE s

LStrip(s) == LStripOf(s, Whitespace)

RStrip(s) == RStripOf(s, Whitespace)

strip(s) == RStrip(LStrip(s))

\* Series.str.strip(): a missing cell stays missing.
str_strip(s) == IF s = None THEN None ELSE strip(s)

\* Python truth of a property value: None and "" are false.
Truthy(x) == x # None /\ x # <<>>

----------------------------------------------------------------------------
(* PREPROCESS: the district -> dt_code map (lines 28-38). *)

\* A feature as the loop sees it: props.get("district"), props.get("dt_code")
\* and the feature's own "id" (None until the loop sets it).
Feature(d, c) == [district |-> d, dt_code |-> c, id |-> None]

\* Line 36: if district and dt_code
Indexed(f) == Truthy(f.district) /\ Truthy(f.dt_code)

\* dict[key] = value
MapPut(map, key, value) ==
    [k \in DOMAIN map \cup {key} |-> IF k = key THEN value ELSE map[k]]

\* Series.map(dict): a key the dict does not hold gives a missing value.
MapGet(map, key) == IF key \in DOMAIN map THEN map[key] ELSE None

\* One turn of the for loop (lines 30-38).
BuildDistrictCodeMap ==
    /\ pc = "preprocess"
    /\ fi <= Len(india_districts)
    /\ LET feature == india_districts[fi] IN
       IF Indexed(feature)
       THEN /\ district_code_map' =
                   MapPut(district_code_map, strip(feature.district),
                          feature.dt_code)
            /\ india_districts' =
                   [india_districts EXCEPT ![fi].id = feature.dt_code]
       ELSE UNCHANGED <<district_code_map, india_districts>>
    /\ fi' = fi + 1
    /\ UNCHANGED <<pc, cache_geojson, cache_csv, df, selected_date,
                   selected_state, selected_metric, filtered_df, summary, fig,
                   alert_table, snap, memo>>

----------------------------------------------------------------------------
(* The column types of pd.read_csv (line 20) and the number parser it       *)
(* shares with pd.to_numeric (line 51).                                     *)

Digits == {"0", "1", "2", "3", "4", "5", "6", "7", "8", "9"}

DigitVal(c) ==
    CASE c = "0" -> 0 [] c = "1" -> 1 [] c = "2" -> 2 [] c = "3" -> 3
      [] c = "4" -> 4 [] c = "5" -> 5 [] c = "6" -> 6 [] c = "7" -> 7
      [] c = "8" -> 8 [] c = "9" -> 9

IsDigits(s) == s # <<>> /\ \A k \in DOMAIN s : s[k] \in Digits

RECURSIVE DigitsVal(_)
DigitsVal(s) ==
    IF s = <<>> THEN 0
    ELSE 10 * DigitsVal(SubSeq(s, 1, Len(s) - 1)) + DigitVal(s[Len(s)])

\* The first place of one of the characters cs in s, 0 when there is none.
FirstOf(s, cs) ==
    IF \E k \in DOMAIN s : s[k] \in cs THEN Min({k \in DOMAIN s : s[k] \in cs})
    ELSE 0

AllDigits(s) == \A k \in DOMAIN s : s[k] \in Digits

RECURSIVE Pow10(_)
Pow10(n) == IF n = 0 THEN 1 ELSE 10 * Pow10(n - 1)

\* The number m * 10^e in halves.  A number that is no multiple of one half
\* has no value here: the numbers of the model are counted in halves.
Halves(m, e) ==
    IF e >= 0 THEN 2 * m * Pow10(e)
    ELSE CHOOSE h \in {(2 * m) \div Pow10(-e)} : h * Pow10(-e) = 2 * m

\* The whitespace the float parser skips around a number.
CSpace == {" ", "\t", "\n", "\r", "\f", "U+000B"}

\* The letters of the words the parser compares without regard to case.
Lower(c) ==
    CASE c = "I" -> "i" [] c = "N" -> "n" [] c = "F" -> "f" [] c = "T" -> "t"
      [] c = "Y" -> "y" [] OTHER -> c

\* The parser's fallback: the whole cell is inf or infinity, in any case,
\* behind at most one sign and with nothing around it.
InfWord(cell) ==
    LET signed == cell # <<>> /\ Head(cell) \in {"+", "-"}
        body == IF signed THEN Tail(cell) ELSE cell
        low == [k \in DOMAIN body |-> Lower(body[k])]
    IN \/ low = <<"i", "n", "f">>
       \/ low = <<"i", "n", "f", "i", "n", "i", "t", "y">>

\* pd.to_numeric(errors="coerce") on one cell: whitespace around, a sign,
\* digits with at most one point among them (a digit on one side of it at
\* least) and an exponent of a sign and digits, or one of the words for an
\* infinite number; anything else (the word nan too), and a missing cell, is
\* NaN.
to_numeric(cell) ==
    IF cell = None THEN NaN
    ELSE IF InfWord(cell) THEN Infinite(IF Head(cell) = "-" THEN -1 ELSE 1)
    ELSE LET t == RStripOf(LStripOf(cell, CSpace), CSpace)
             signed == t # <<>> /\ Head(t) \in {"+", "-"}
             neg == t # <<>> /\ Head(t) = "-"
             u == IF signed THEN Tail(t) ELSE t
             epos == FirstOf(u, {"e", "E"})
             mant == IF epos = 0 THEN u ELSE SubSeq(u, 1, epos - 1)
             expt == IF epos = 0 THEN <<>> ELSE SubSeq(u, epos + 1, Len(u))
             esigned == expt # <<>> /\ Head(expt) \in {"+", "-"}
             eneg == expt # <<>> /\ Head(expt) = "-"
             edigits == IF esigned THEN Tail(expt) ELSE expt
             dot == FirstOf(mant, {"."})
             ip == IF dot = 0 THEN mant ELSE SubSeq(mant, 1, dot - 1)
             fp == IF dot = 0 THEN <<>> ELSE SubSeq(mant, dot + 1, Len(mant))
             wellformed == /\ AllDigits(ip)
                           /\ AllDigits(fp)
                           /\ Len(ip) + Len(fp) >= 1
                           /\ epos = 0 \/ IsDigits(edigits)
             e == (IF epos = 0 THEN 0
                   ELSE IF eneg THEN -DigitsVal(edigits) ELSE DigitsVal(edigits))
                  - Len(fp)
             mag == Halves(DigitsVal(ip \o fp), e)
         IN IF wellformed THEN Float(IF neg THEN -mag ELSE mag) ELSE NaN

\* The words pd.read_csv reads as booleans.
TrueWords == {<<"T", "r", "u", "e">>, <<"T", "R", "U", "E">>, <<"t", "r", "u", "e">>}

FalseWords ==
    {<<"F", "a", "l", "s", "e">>, <<"F", "A", "L", "S", "E">>,
     <<"f", "a", "l", "s", "e">>}

NumberCell(cell) == ~to_numeric(cell).nan

\* pd.read_csv gives a column one type: numbers when every cell that is not
\* missing is a number (a column of missing cells only is float64), booleans
\* when every such cell is a word for true or false, text otherwise.  The
\* columns of a file of no rows are text (object).
ColumnKind(frame, col) ==
    LET cells == {frame[k][col] : k \in DOMAIN frame} \ {None}
    IN IF frame = <<>> THEN "text"
       ELSE IF \A c \in cells : NumberCell(c) THEN "number"
       ELSE IF \A c \in cells : c \in TrueWords \cup FalseWords THEN "bool"
       ELSE "text"

----------------------------------------------------------------------------
(* Clean CSV (lines 42-44). *)

\* Line 44 as a plausible variant: the lookup uses the untrimmed name.
CleanRowUntrimmed(r, map) ==
    [Date |-> r.Date, District |-> str_strip(r.District),
     State |-> str_strip(r.State), Confirmed |-> r.Confirmed,
     Recovered |-> r.Recovered, Deceased |-> r.Deceased, Other |-> r.Other,
     Tested |-> r.Tested, dt_code |-> MapGet(map, r.District)]

CleanRow(r, map) ==
    [Date |-> r.Date, District |-> str_strip(r.District),
     State |-> str_strip(r.State), Confirmed |-> r.Confirmed,
     Recovered |-> r.Recovered, Deceased |-> r.Deceased, Other |-> r.Other,
     Tested |-> r.Tested, dt_code |-> MapGet(map, str_strip(r.District))]

\* Series.str raises AttributeError on a column that is not text.
HasStr(frame, col) == ColumnKind(frame, col) = "text"

\* The loop has ended; lines 42-44 run on the whole frame.  When line 43
\* raises, line 42 has trimmed the District column.
CleanCsv ==
    /\ pc = "preprocess"
    /\ fi > Len(india_districts)
    /\ \/ /\ ~(HasStr(df, "District") /\ HasStr(df, "State"))
          /\ df' = IF HasStr(df, "District")
                   THEN [k \in DOMAIN df |->
                            [df[k] EXCEPT !.District = str_strip(@)]]
                   ELSE df
          /\ pc' = "crashed"
       \/ /\ HasStr(df, "District")
          /\ HasStr(df, "State")
          /\ df' = [k \in DOMAIN df |-> CleanRow(df[k], district_code_map)]
          /\ pc' = "convert_date"
    /\ UNCHANGED <<cache_geojson, cache_csv, india_districts, fi,
                   district_code_map, selected_date, selected_state,
                   selected_metric, filtered_df, summary, fig, alert_table,
                   snap, memo>>

----------------------------------------------------------------------------
(* Convert Date (line 47): pd.to_datetime with the default errors="raise". *)

to_datetime(cell) ==
    IF cell.kind = "ts" THEN Timestamp(cell.day, cell.tod) ELSE NaT

\* A cell that is text but no date makes pd.to_datetime raise.
Unparseable(cell) == cell.kind = "text"

ConvertDate ==
    /\ pc = "convert_date"
    /\ \/ /\ \E k \in DOMAIN df : Unparseable(df[k].Date)
          /\ pc' = "crashed"
          /\ UNCHANGED df
       \/ /\ \A k \in DOMAIN df : ~Unparseable(df[k].Date)
          /\ df' = [k \in DOMAIN df |->
                       [df[k] EXCEPT !.Date = to_datetime(df[k].Date)]]
          /\ pc' = "numeric"
    /\ UNCHANGED <<cache_geojson, cache_csv, india_districts, fi,
                   district_code_map, selected_date, selected_state,
                   selected_metric, filtered_df, summary, fig, alert_table,
                   snap, memo>>

----------------------------------------------------------------------------
(* Numeric columns (lines 50-51). *)

metrics == <<"Confirmed", "Recovered", "Deceased", "Other", "Tested">>

MetricNames == {metrics[k] : k \in DOMAIN metrics}

\* The column is boolean for pd.read_csv: it holds a word for true or false
\* and, beside such words, missing cells only.
BoolColumn(frame, col) ==
    /\ \E k \in DOMAIN frame : frame[k][col] \in TrueWords \cup FalseWords
    /\ \A k \in DOMAIN frame :
           frame[k][col] \in {None} \cup TrueWords \cup FalseWords

\* fillna(0)
fillna(x) == IF x.nan THEN Num(0) ELSE x

\* df[metrics].apply(pd.to_numeric, errors="coerce").fillna(0), column by
\* column.  A boolean column is numeric already and stays as it is; a column
\* of booleans and missing cells is an object column of True, False and NaN,
\* which pd.to_numeric turns into the floats 1, 0 and NaN; a text column is
\* parsed cell by cell, a word for true or false being no number there.
NumericFrame(frame) ==
    LET bools == [col \in MetricNames |-> BoolColumn(frame, col)]
        gaps == [col \in MetricNames |->
                    \E k \in DOMAIN frame : frame[k][col] = None]
        Cell(col, cell) ==
            IF ~bools[col] THEN fillna(to_numeric(cell))
            ELSE IF ~gaps[col] THEN Bool(cell \in TrueWords)
            ELSE IF cell = None THEN Num(0)
            ELSE Float(IF cell \in TrueWords THEN 2 ELSE 0)
    IN [k \in DOMAIN frame |->
           [f \in DOMAIN frame[k] |->
               IF f \in MetricNames THEN Cell(f, frame[k][f]) ELSE frame[k][f]]]

NumericColumns ==
    /\ pc = "numeric"
    /\ df' = NumericFrame(df)
    /\ pc' = "sidebar"
    /\ snap' = IF snap = <<>>
               THEN <<[df |-> df', map |-> district_code_map,
                       geo |-> india_districts]>>
               ELSE snap
    /\ UNCHANGED <<cache_geojson, cache_csv, india_districts, fi,
                   district_code_map, selected_date, selected_state,
                   selected_metric, filtered_df, summary, fig, alert_table,
                   memo>>

----------------------------------------------------------------------------
(* SIDEBAR CONTROLS (lines 57-72). *)

All == <<"A", "l", "l">>

\* The calendar days of the parsed dates: df["Date"].min() and .max() skip NaT,
\* and .date() drops the time of day.
Days(frame) == {frame[k].Date.day : k \in {j \in DOMAIN frame : ~frame[j].Date.nat}}

\* Line 65: ["All"] + sorted(df["State"].unique().tolist()), as a set.
states(frame) == {All} \cup {frame[k].State : k \in DOMAIN frame}

\* sorted() raises TypeError on a list that holds a missing State (a float
\* NaN) next to a text.
Unsortable(frame) ==
    /\ \E k \in DOMAIN frame : frame[k].State = None
    /\ \E k \in DOMAIN frame : frame[k].State # None

\* Lines 59-61: .date() of the NaT that min() and max() give for a column of
\* no parsed date raises ValueError.
SidebarControls ==
    /\ pc = "sidebar"
    /\ \/ /\ Days(df) = {}
          /\ pc' = "crashed"
          /\ UNCHANGED <<selected_date, selected_state, selected_metric>>
       \/ /\ Days(df) # {}
          /\ Unsortable(df)
          /\ \E d \in Min(Days(df))..Max(Days(df)) : selected_date' = d
          /\ pc' = "crashed"
          /\ UNCHANGED <<selected_state, selected_metric>>
       \/ /\ Days(df) # {}
          /\ ~Unsortable(df)
          /\ \E d \in Min(Days(df))..Max(Days(df)) : selected_date' = d
          /\ \E s \in states(df) : selected_state' = s
          /\ \E m \in MetricNames : selected_metric' = m
          /\ pc' = "filter"
    /\ UNCHANGED <<cache_geojson, cache_csv, india_districts, fi,
                   district_code_map, df, filtered_df, summary, fig,
                   alert_table, snap, memo>>

----------------------------------------------------------------------------
(* FILTER DATA (lines 75-78). *)

\* pd.to_datetime(selected_date): midnight of the day.
to_datetime_date(d) == Timestamp(d, 0)

\* Series == Timestamp: NaT equals nothing.
DateEq(a, b) == ~a.nat /\ ~b.nat /\ a.day = b.day /\ a.tod = b.tod

Filter(frame, date, state) ==
    LET OnDate(r) == DateEq(r.Date, to_datetime_date(date))
        InState(r) == r.State = state
        by_date == SelectSeq(frame, OnDate)
    IN IF state # All THEN SelectSeq(by_date, InState) ELSE by_date

\* Line 75 as a plausible variant: the filtered frame is assigned to df.
FilterDataInPlace ==
    /\ pc = "filter"
    /\ filtered_df' = Filter(df, selected_date, selected_state)
    /\ df' = filtered_df'
    /\ pc' = "summary"
    /\ UNCHANGED <<cache_geojson, cache_csv, india_districts, fi,
                   district_code_map, selected_date, selected_state,
                   selected_metric, summary, fig, alert_table, snap, memo>>

FilterData ==
    /\ pc = "filter"
    /\ filtered_df' = Filter(df, selected_date, selected_state)
    /\ pc' = "summary"
    /\ UNCHANGED <<cache_geojson, cache_csv, india_districts, fi,
                   district_code_map, df, selected_date, selected_state,
                   selected_metric, summary, fig, alert_table, snap, memo>>

----------------------------------------------------------------------------
(* SUMMARY METRICS (lines 85-88). *)

\* Float addition: infinity plus a finite number or itself is itself,
\* infinity plus minus infinity is NaN.
Add(a, b) ==
    IF a.nan \/ b.nan THEN NaN
    ELSE IF a.inf # 0 /\ b.inf # 0 THEN (IF a.inf = b.inf THEN a ELSE NaN)
    ELSE IF a.inf # 0 THEN a
    ELSE IF b.inf # 0 THEN b
    ELSE Float(a.v + b.v)

\* Series.sum(): a NaN cell is skipped.
RECURSIVE Sum(_, _)
Sum(frame, col) ==
    IF frame = <<>> THEN Num(0)
    ELSE Add(IF Head(frame)[col].nan THEN Num(0) ELSE Head(frame)[col],
             Sum(Tail(frame), col))

\* int(x) of a finite float given in halves: truncation toward zero.
int(halves) == IF halves >= 0 THEN halves \div 2 ELSE -((-halves) \div 2)

\* int(x) raises OverflowError on an infinite float and ValueError on NaN.
IntRaises(x) == x.nan \/ x.inf # 0

Total(frame, col) == int(Sum(frame, col).v)

\* The four totals in the order of lines 85-88.
SummaryColumns == <<"Confirmed", "Recovered", "Deceased", "Tested">>

\* The places of the totals whose int() raises.
Failing(frame) ==
    {j \in DOMAIN SummaryColumns : IntRaises(Sum(frame, SummaryColumns[j]))}

SummaryMetrics ==
    /\ pc = "summary"
    /\ \/ /\ Failing(filtered_df) # {}
          /\ summary' = [c \in {SummaryColumns[j] :
                                   j \in 1..(Min(Failing(filtered_df)) - 1)} |->
                            Total(filtered_df, c)]
          /\ pc' = "crashed"
       \/ /\ Failing(filtered_df) = {}
          /\ summary' = [Confirmed |-> Total(filtered_df, "Confirmed"),
                         Recovered |-> Total(filtered_df, "Recovered"),
                         Deceased |-> Total(filtered_df, "Deceased"),
                         Tested |-> Total(filtered_df, "Tested")]
          /\ pc' = "map"
    /\ UNCHANGED <<cache_geojson, cache_csv, india_districts, fi,
                   district_code_map, df, selected_date, selected_state,
                   selected_metric, filtered_df, fig, alert_table, snap, memo>>

----------------------------------------------------------------------------
(* CHOROPLETH MAP (lines 91-110): what px.choropleth is handed. *)

ChoroplethMap ==
    /\ pc = "map"
    /\ fig' = [locations |-> [k \in DOMAIN filtered_df |-> filtered_df[k].dt_code],
               color |-> [k \in DOMAIN filtered_df |->
                             filtered_df[k][selected_metric]],
               title |-> selected_metric]
    /\ pc' = "severity"
    /\ UNCHANGED <<cache_geojson, cache_csv, india_districts, fi,
                   district_code_map, df, selected_date, selected_state,
                   selected_metric, filtered_df, summary, alert_table, snap,
                   memo>>

----------------------------------------------------------------------------
(* SEVERITY CLASSIFICATION (lines 115-142). *)

SevereFrom == 10000

HighFrom == 5000

HeadRows == 10

\* Line 116 and 118 as a plausible variant: > in place of >=.
AtLeastAbove(confirmed, n) ==
    /\ ~confirmed.nan
    /\ confirmed.inf = 1 \/ (confirmed.inf = 0 /\ confirmed.v > 2 * n)

\* confirmed >= n, confirmed in halves; a comparison with NaN is false.
AtLeast(confirmed, n) ==
    /\ ~confirmed.nan
    /\ confirmed.inf = 1 \/ (confirmed.inf = 0 /\ confirmed.v >= 2 * n)

\* Lines 116-121 as a plausible variant: the tiers start above the thresholds.
severity_level_strict(confirmed) ==
    IF AtLeastAbove(confirmed, SevereFrom) THEN "Severe"
    ELSE IF AtLeastAbove(confirmed, HighFrom) THEN "High"
    ELSE "Moderate"

severity_level(confirmed) ==
    IF AtLeast(confirmed, SevereFrom) THEN "Severe"
    ELSE IF AtLeast(confirmed, HighFrom) THEN "High"
    ELSE "Moderate"

severity_order(tier) ==
    CASE tier = "Severe" -> 0 [] tier = "High" -> 1 [] tier = "Moderate" -> 2

\* Lines 124 and 128: the two derived columns, on the copy.
WithSeverity(r) ==
    [District |-> r.District, State |-> r.State, Confirmed |-> r.Confirmed,
     Severity |-> severity_level(r.Confirmed),
     severity_rank |-> severity_order(severity_level(r.Confirmed))]

\* a > b of two floats neither of which is NaN.
Greater(a, b) == a.inf > b.inf \/ (a.inf = 0 /\ b.inf = 0 /\ a.v > b.v)

\* ["severity_rank", "Confirmed"], ascending=[True, False]
ComesBefore(a, b) ==
    \/ a.severity_rank < b.severity_rank
    \/ a.severity_rank = b.severity_rank /\ Greater(a.Confirmed, b.Confirmed)

\* r put into the sorted s, behind every row it does not come before.
RECURSIVE Insert(_, _)
Insert(r, s) ==
    IF s = <<>> THEN <<r>>
    ELSE IF ComesBefore(r, s[Len(s)])
         THEN Append(Insert(r, SubSeq(s, 1, Len(s) - 1)), s[Len(s)])
         ELSE Append(s, r)

\* sort_values on two keys: a stable sort.
RECURSIVE sort_values(_)
sort_values(s) ==
    IF s = <<>> THEN <<>>
    ELSE Insert(s[Len(s)], sort_values(SubSeq(s, 1, Len(s) - 1)))

\* .head(n) as a plausible variant: the last n rows.
tail(s, n) == IF Len(s) <= n THEN s ELSE SubSeq(s, Len(s) - n + 1, Len(s))

\* .head(n)
head(s, n) == IF Len(s) <= n THEN s ELSE SubSeq(s, 1, n)

\* Lines 137-142: the four columns kept.
Project(r) ==
    [District |-> r.District, State |-> r.State, Confirmed |-> r.Confirmed,
     Severity |-> r.Severity]

AlertTable(frame) ==
    LET severity_df == sort_values([k \in DOMAIN frame |-> WithSeverity(frame[k])])
    IN head([k \in DOMAIN severity_df |-> Project(severity_df[k])], HeadRows)

SeverityClassification ==
    /\ pc = "severity"
    /\ alert_table' = AlertTable(filtered_df)
    /\ pc' = "done"
    /\ UNCHANGED <<cache_geojson, cache_csv, india_districts, fi,
                   district_code_map, df, selected_date, selected_state,
                   selected_metric, filtered_df, summary, fig, snap, memo>>

----------------------------------------------------------------------------
(* A user interaction: Streamlit runs the script again from the top, with   *)
(* load_data() answered from st.cache_data (a fresh copy of the cached      *)
(* values).  It does so after a run that has ended, after one that has      *)
(* raised, and in the middle of one, which it stops.  memo may keep the     *)
(* criteria and outputs of a run that ended, and keeps what has become of   *)
(* the runs since then.                                                     *)

Outputs ==
    [criteria |-> <<selected_date, selected_state, selected_metric>>,
     filtered_df |-> filtered_df, summary |-> summary,
     alert_table |-> alert_table]

\* What the run that gives way was, for the history: a run that ended with
\* other criteria than the kept ones, one that raised, one that was stopped.
Ended ==
    IF pc = "done"
    THEN (IF memo[1].outputs.criteria # Outputs.criteria THEN {"other"} ELSE {})
    ELSE IF pc = "crashed" THEN {"raised"}
    ELSE {"stopped"}

Rerun ==
    /\ pc' = "preprocess"
    /\ india_districts' = cache_geojson
    /\ df' = cache_csv
    /\ fi' = 1
    /\ district_code_map' = <<>>
    /\ filtered_df' = <<>>
    /\ summary' = <<>>
    /\ fig' = <<>>
    /\ alert_table' = <<>>
    /\ \/ /\ pc = "done"
          /\ memo' = <<[outputs |-> Outputs, since |-> {}]>>
       \/ memo' = IF memo = <<>> THEN memo
                  ELSE <<[memo[1] EXCEPT !.since = @ \cup Ended]>>
    /\ selected_date' = 0
    /\ selected_state' = <<>>
    /\ selected_metric' = ""
    /\ UNCHANGED <<cache_geojson, cache_csv, snap>>

----------------------------------------------------------------------------
(* The inputs: the two files as load_data() returns them. *)

RawRow(date, district, state, c, r, d, o, t) ==
    [Date |-> date, District |-> district, State |-> state, Confirmed |-> c,
     Recovered |-> r, Deceased |-> d, Other |-> o, Tested |-> t]

\* The text of a non-negative integer.
DigitChar(d) ==
    CASE d = 0 -> "0" [] d = 1 -> "1" [] d = 2 -> "2" [] d = 3 -> "3"
      [] d = 4 -> "4" [] d = 5 -> "5" [] d = 6 -> "6" [] d = 7 -> "7"
      [] d = 8 -> "8" [] d = 9 -> "9"

RECURSIVE DigitsOf(_)
DigitsOf(n) ==
    IF n < 10 THEN <<DigitChar(n)>>
    ELSE Append(DigitsOf(n \div 10), DigitChar(n % 10))

\* The text of the number of h halves: "-12", "7", "4999.5".
CellOf(h) ==
    LET mag == IF h < 0 THEN -h ELSE h
        body == DigitsOf(mag \div 2) \o (IF mag % 2 = 1 THEN <<".", "5">> ELSE <<>>)
    IN IF h < 0 THEN <<"-">> \o body ELSE body

StateX == <<"X">>

StateY == <<"Y">>

DistrictA == <<"a">>

DistrictB == <<"b">>

\* A feature collection with one feature the loop indexes and one it skips.
GeoFixed == <<Feature(<<" ", "a">>, <<"7">>), Feature(<<"c">>, None)>>

\* Feature collections of the join: names absent, empty, blank, padded and in
\* both cases; codes absent, empty and present.
GeoNames == {None, <<>>, <<" ">>, <<"a">>, <<"\t", "a", " ">>, <<"A">>}

GeoCodes == {None, <<>>, <<"7">>}

GeoFeatures == {Feature(d, c) : d \in GeoNames, c \in GeoCodes}

GeoDistricts == {<<" ">>, <<"a">>, <<"a", "\n">>, <<"A">>, <<"b">>}

GeoRow(d) ==
    RawRow(DateCell(1, 0), d, StateX, <<"1">>, <<"2">>, <<"3">>, <<"4">>, <<"5">>)

\* One row of any of the districts or of none, alone or followed by a row
\* whose District cell is empty.
GeoCsvs ==
    {<<GeoRow(d)>> : d \in GeoDistricts \cup {None}}
    \cup {<<GeoRow(d), GeoRow(None)>> : d \in GeoDistricts}

\* Metric cells: missing, a word, a minus sign alone, integers with either
\* sign, a padded fraction with a trailing zero, a number with an exponent,
\* a word for an infinite number, a word for true.
NumCells ==
    {None, <<"x">>, <<"-">>, <<"-", "5">>, <<"+", "7">>,
     <<" ", "1", ".", "5", "0">>, <<"5", "e", "-", "1">>,
     <<"-", "I", "n", "f", "i", "n", "i", "t", "y">>, <<"T", "r", "u", "e">>}

\* Two rows whose Confirmed column is boolean, boolean with a gap, or a word
\* for true beside a number.
BoolCells == {<<"T", "r", "u", "e">>, <<"F", "a", "l", "s", "e">>, None, <<"7">>}

BoolRow(c) ==
    RawRow(DateCell(1, 0), DistrictA, StateX, c, <<"1">>, <<"1">>, <<"1">>, <<"1">>)

BoolCsvs == {<<BoolRow(a), BoolRow(b)>> : a \in BoolCells, b \in BoolCells}

NumCsvs(cells) ==
    {<<RawRow(date, DistrictA, StateX, c, r, d, o, t)>> :
        date \in {DateCell(1, 0), TextCell},
        c \in cells, r \in cells, d \in cells, o \in cells, t \in cells}

\* Rows of the filter and the totals: dates at midnight, dates with a time of
\* day, a missing date and a malformed one; two states, one padded; a district
\* the map holds and one it does not; whole, fractional, negative and
\* unparseable cells, different in every column.
FilterDates == {DateCell(1, 0), DateCell(1, 1), DateCell(2, 0), EmptyCell, TextCell}

FilterRest ==
    {[District |-> DistrictA, State |-> StateX, Confirmed |-> <<"1", "2", "0", "0", "0">>,
      Recovered |-> <<"7">>, Deceased |-> <<"1">>, Other |-> <<"-", "i", "n", "f">>,
      Tested |-> <<"4", "0">>],
     [District |-> DistrictB, State |-> <<" ", "X", " ">>, Confirmed |-> <<"2", ".", "5">>,
      Recovered |-> <<"0", ".", "5">>, Deceased |-> <<"x">>, Other |-> None,
      Tested |-> <<"-", "3">>],
     [District |-> DistrictA, State |-> StateY, Confirmed |-> <<"6", "0", "0", "0", ".", "5">>,
      Recovered |-> <<"-", "1", ".", "5">>, Deceased |-> <<"2">>, Other |-> <<"1">>,
      Tested |-> None]}

FilterRows ==
    {RawRow(date, x.District, x.State, x.Confirmed, x.Recovered, x.Deceased,
            x.Other, x.Tested) : date \in FilterDates, x \in FilterRest}

\* A row of an infinite count.
InfiniteRow ==
    RawRow(DateCell(1, 0), DistrictA, StateX, <<"7">>, <<"i", "n", "f">>, <<"1">>,
           <<"1">>, <<"1">>)

\* A row of no State.
StatelessRow ==
    RawRow(DateCell(1, 0), DistrictA, None, <<"1">>, <<"1">>, <<"1">>, <<"1">>, <<"1">>)

FilterCsvs(n) == SeqsUpTo(FilterRows \cup {StatelessRow, InfiniteRow}, n)

\* Rows of the runs that follow one another.
RunRows ==
    {RawRow(DateCell(1, 0), DistrictA, StateX, <<"1", "2", "0", "0", "0">>,
            <<"7">>, <<"1">>, <<"0">>, <<"4", "0">>),
     RawRow(DateCell(2, 0), DistrictB, StateY, <<"6", "0", "0", "0">>,
            <<"x">>, <<"2">>, None, <<"9">>),
     RawRow(DateCell(1, 0), DistrictB, StateY, <<"3", "0", "0", "0">>,
            <<"5">>, <<"0">>, <<"1">>, <<"1">>),
     RawRow(TextCell, DistrictA, StateX, <<"1">>, <<"1">>, <<"1">>, <<"1">>, <<"1">>),
     StatelessRow, InfiniteRow}

RunCsvs(n) == SeqsUpTo(RunRows, n)

\* Frames of the severity table: one row of any count up to MaxConfirmed, in
\* halves and of both signs; short frames of any of four counts; long frames
\* of two counts of different tiers; long frames of one tier with a higher
\* count in one or two rows; a frame none of whose rows the selected day
\* keeps.
SeverityRow(cell) ==
    RawRow(DateCell(1, 0), DistrictA, StateX, cell, <<"0">>, <<"0">>, <<"0">>, <<"0">>)

Cell3000 == <<"3", "0", "0", "0">>

Cell6000 == <<"6", "0", "0", "0">>

Cell11000 == <<"1", "1", "0", "0", "0">>

Cell12000 == <<"1", "2", "0", "0", "0">>

AlertCells == {Cell3000, Cell6000, Cell11000, Cell12000}

\* The two counts of the long frames, of different tiers.
AlertPair == {Cell3000, Cell12000}

\* A long frame of one tier: the higher count in rows i and j, the lower one
\* in the others.
SevereCells(n, i, j) == [k \in 1..n |-> IF k \in {i, j} THEN Cell12000 ELSE Cell11000]

SeverityFrame(cells) == [k \in DOMAIN cells |-> SeverityRow(cells[k])]

----------------------------------------------------------------------------
(* The state when the script starts: load_data() has returned (line 24). *)

InitFrom(geojsons, csvs) ==
    /\ cache_geojson \in geojsons
    /\ cache_csv \in csvs
    /\ india_districts = cache_geojson
    /\ df = cache_csv
    /\ pc = "preprocess"
    /\ fi = 1
    /\ district_code_map = <<>>
    /\ selected_date = 0
    /\ selected_state = <<>>
    /\ selected_metric = ""
    /\ filtered_df = <<>>
    /\ summary = <<>>
    /\ fig = <<>>
    /\ alert_table = <<>>
    /\ snap = <<>>
    /\ memo = <<>>

\* The runs of the script, one after another.
Init == InitFrom({GeoFixed}, RunCsvs(MaxRunRows))

Next ==
    \/ BuildDistrictCodeMap
    \/ CleanCsv
    \/ ConvertDate
    \/ NumericColumns
    \/ SidebarControls
    \/ FilterData
    \/ SummaryMetrics
    \/ ChoroplethMap
    \/ SeverityClassification
    \/ Rerun

Spec == Init /\ [][Next]_vars

\* One run of the script over the rows of the filter and the totals.
InitFilter == InitFrom({GeoFixed}, FilterCsvs(MaxRows))

NextFilter ==
    \/ BuildDistrictCodeMap
    \/ CleanCsv
    \/ ConvertDate
    \/ NumericColumns
    \/ SidebarControls
    \/ FilterData
    \/ SummaryMetrics
    \/ ChoroplethMap
    \/ SeverityClassification

SpecFilter == InitFilter /\ [][NextFilter]_vars

\* The map and the join.
InitGeo == InitFrom(SeqsUpTo(GeoFeatures, MaxFeatures), GeoCsvs)

NextGeo == BuildDistrictCodeMap \/ CleanCsv

SpecGeo == InitGeo /\ [][NextGeo]_vars

\* The numeric columns.
InitNum ==
    InitFrom({GeoFixed}, NumCsvs(NumCells) \cup BoolCsvs \cup {<<StatelessRow>>})

NextNum == BuildDistrictCodeMap \/ CleanCsv \/ ConvertDate \/ NumericColumns

SpecNum == InitNum /\ [][NextNum]_vars

\* The severity table.  The run stands before line 115: the frame of
\* the file has gone through the steps above with the first day and "All"
\* selected.
RECURSIVE MapAfterLoop(_)
MapAfterLoop(features) ==
    IF features = <<>> THEN <<>>
    ELSE LET n == Len(features)
             map == MapAfterLoop(SubSeq(features, 1, n - 1))
         IN IF Indexed(features[n])
            THEN MapPut(map, strip(features[n].district), features[n].dt_code)
            ELSE map

FeaturesAfterLoop(features) ==
    [k \in DOMAIN features |->
        IF Indexed(features[k]) THEN [features[k] EXCEPT !.id = features[k].dt_code]
        ELSE features[k]]

FrameAfterPreprocess(csv, map) ==
    NumericFrame([k \in DOMAIN csv |->
        LET r == CleanRow(csv[k], map)
        IN [r EXCEPT !.Date = to_datetime(r.Date)]])

InitSeverity ==
    /\ cache_geojson = GeoFixed
    /\ \/ \E h \in (-2 * MaxConfirmed)..(2 * MaxConfirmed) :
             cache_csv = SeverityFrame(<<CellOf(h)>>)
       \/ \E n \in 1..MaxMixedRows : \E cells \in [1..n -> AlertCells] :
             cache_csv = SeverityFrame(cells)
       \/ \E n \in 1..MaxAlertRows : \E cells \in [1..n -> AlertPair] :
             cache_csv = SeverityFrame(cells)
       \/ \E n \in 1..MaxAlertRows : \E i \in 1..n : \E j \in 1..n :
             cache_csv = SeverityFrame(SevereCells(n, i, j))
       \/ cache_csv = <<[SeverityRow(Cell3000) EXCEPT !.Date = DateCell(1, 1)]>>
    /\ india_districts = FeaturesAfterLoop(cache_geojson)
    /\ fi = Len(india_districts) + 1
    /\ district_code_map = MapAfterLoop(cache_geojson)
    /\ df = FrameAfterPreprocess(cache_csv, district_code_map)
    /\ selected_date = 1
    /\ selected_state = All
    /\ selected_metric = "Confirmed"
    /\ filtered_df = Filter(df, selected_date, selected_state)
    /\ summary = [Confirmed |-> Total(filtered_df, "Confirmed"),
                  Recovered |-> Total(filtered_df, "Recovered"),
                  Deceased |-> Total(filtered_df, "Deceased"),
                  Tested |-> Total(filtered_df, "Tested")]
    /\ fig = [locations |-> [k \in DOMAIN filtered_df |-> filtered_df[k].dt_code],
              color |-> [k \in DOMAIN filtered_df |->
                            filtered_df[k][selected_metric]],
              title |-> selected_metric]
    /\ alert_table = <<>>
    /\ snap = <<[df |-> df, map |-> district_code_map, geo |-> india_districts]>>
    /\ memo = <<>>
    /\ pc = "severity"

NextSeverity == SeverityClassification

SpecSeverity == InitSeverity /\ [][NextSeverity]_vars

\* Sanity of InitSeverity: a run of the script that stands before line 115
\* is in the state InitSeverity computes from its files.
BeforeSeverityAsComputed ==
    pc = "severity" =>
        /\ india_districts = FeaturesAfterLoop(cache_geojson)
        /\ fi = Len(india_districts) + 1
        /\ district_code_map = MapAfterLoop(cache_geojson)
        /\ df = FrameAfterPreprocess(cache_csv, district_code_map)
        /\ filtered_df = Filter(df, selected_date, selected_state)
        /\ alert_table = <<>>
        /\ snap = <<[df |-> df, map |-> district_code_map, geo |-> india_districts]>>

----------------------------------------------------------------------------
(* The claims. *)

Rendered == pc \in {"summary", "map", "severity", "done"}

Normalized == pc \in {"sidebar", "filter", "summary", "map", "severity", "done"}

\* The rows of frame that satisfy Keep, in order.
RECURSIVE Kept(_, _, _)
Kept(frame, Keep(_), n) ==
    IF n = 0 THEN <<>>
    ELSE IF Keep(frame[n]) THEN Append(Kept(frame, Keep, n - 1), frame[n])
         ELSE Kept(frame, Keep, n - 1)

\* The sum of a column, in halves, row by row.
RECURSIVE ColumnSum(_, _, _)
ColumnSum(frame, col, n) ==
    IF n = 0 THEN 0 ELSE ColumnSum(frame, col, n - 1) + frame[n][col].v

\* C1: the filtered frame is exactly the rows of df whose Date falls on the
\* selected calendar day, whatever the time of day, and whose State is the
\* selected one unless "All" is selected; it is empty when none does.
C1_FilterByCalendarDay ==
    Rendered =>
        LET Keep(r) == /\ ~r.Date.nat
                       /\ r.Date.day = selected_date
                       /\ (selected_state = All \/ r.State = selected_state)
        IN filtered_df = Kept(df, Keep, Len(df))

\* A feature named like the row's District, both trimmed.
NamedLike(f, district) ==
    /\ f.district # None
    /\ district # None
    /\ strip(f.district) = strip(district)

\* C2 as stated: after the clean-up a row's dt_code is non-null exactly when
\* its trimmed District equals the trimmed name of some feature of the
\* collection.
C2_JoinOnAnyFeature ==
    pc = "convert_date" =>
        \A k \in DOMAIN df :
            (df[k].dt_code # None) <=>
                \E j \in DOMAIN cache_geojson :
                    NamedLike(cache_geojson[j], cache_csv[k].District)

\* C2 as amended: a row's dt_code is non-null exactly when its trimmed District
\* equals the trimmed name of some feature that has a non-empty name and a
\* non-empty code; every row stays in the frame.
C2_JoinOnIndexedFeature ==
    pc = "convert_date" =>
        /\ Len(df) = Len(cache_csv)
        /\ \A k \in DOMAIN df :
               (df[k].dt_code # None) <=>
                   \E j \in DOMAIN cache_geojson :
                       /\ NamedLike(cache_geojson[j], cache_csv[k].District)
                       /\ cache_geojson[j].district # <<>>
                       /\ cache_geojson[j].dt_code \notin {None, <<>>}

\* A padded District joined to a padded feature name and a row of no District
\* left without a code, the collection holding a feature of no code as well.
C2_Witness ==
    /\ pc = "convert_date"
    /\ cache_csv[1].District = <<"a", "\n">>
    /\ df[1].dt_code = <<"7">>
    /\ Len(df) = 2
    /\ df[2].dt_code = None
    /\ \E j \in DOMAIN cache_geojson :
           cache_geojson[j] = Feature(<<"\t", "a", " ">>, <<"7">>)
    /\ \E j \in DOMAIN cache_geojson : cache_geojson[j].dt_code = None

\* The metric cells of the model that are numbers, with their values.
NumberCells ==
    {<<(<<"-", "5">>), Float(-10)>>, <<(<<"+", "7">>), Float(14)>>,
     <<(<<" ", "1", ".", "5", "0">>), Float(3)>>,
     <<(<<"5", "e", "-", "1">>), Float(1)>>,
     <<(<<"-", "I", "n", "f", "i", "n", "i", "t", "y">>), Infinite(-1)>>,
     <<(<<"7">>), Float(14)>>}

\* C3: after the numeric conversion every metric of every row is present, is
\* not NaN and is not negative, and a cell that is no number is exactly 0; the
\* conversion does not end the run.
C3_MetricsNonNegative ==
    /\ pc = "crashed" =>
           \/ \E k \in DOMAIN cache_csv : cache_csv[k].Date.kind = "text"
           \/ ~HasStr(cache_csv, "District")
           \/ ~HasStr(cache_csv, "State")
    /\ pc = "sidebar" =>
        \A k \in DOMAIN df : \A m \in MetricNames :
            /\ m \in DOMAIN df[k]
            /\ ~df[k][m].nan
            /\ df[k][m].inf >= 0
            /\ df[k][m].v >= 0
            /\ (\A p \in NumberCells : p[1] # cache_csv[k][m]) => df[k][m] = Num(0)

\* The tier the table shows for a frame of the one count given as text.
ShownTier(cell, tier) ==
    (pc = "done" /\ cache_csv = SeverityFrame(<<cell>>)) =>
        (Len(alert_table) = 1 /\ alert_table[1].Severity = tier)

\* C4 as stated: 9999 is Moderate, 10000 Severe, 5000 High, 4999 Moderate and
\* 0 Moderate.
C4_BoundaryTiers ==
    /\ ShownTier(<<"9", "9", "9", "9">>, "Moderate")
    /\ ShownTier(<<"1", "0", "0", "0", "0">>, "Severe")
    /\ ShownTier(<<"5", "0", "0", "0">>, "High")
    /\ ShownTier(<<"4", "9", "9", "9">>, "Moderate")
    /\ ShownTier(<<"0">>, "Moderate")

\* C4 as amended: 9999 is High, 10000 Severe, 5000 High, 4999 Moderate and
\* 0 Moderate.
C4_BoundaryTiersAmended ==
    /\ ShownTier(<<"9", "9", "9", "9">>, "High")
    /\ ShownTier(<<"1", "0", "0", "0", "0">>, "Severe")
    /\ ShownTier(<<"5", "0", "0", "0">>, "High")
    /\ ShownTier(<<"4", "9", "9", "9">>, "Moderate")
    /\ ShownTier(<<"0">>, "Moderate")

\* The frame of the one count 9999 has been classified.
C4_Witness ==
    /\ pc = "done"
    /\ cache_csv = SeverityFrame(<<(<<"9", "9", "9", "9">>)>>)
    /\ alert_table[1].Severity = "High"

\* C5: a count is Severe exactly from 10000 on, High exactly from 5000 up to
\* but not 10000, and Moderate exactly below 5000, zero and negative counts
\* included; the display ranks are Severe 0, High 1, Moderate 2.
C5_TierByThreshold ==
    (pc = "done" /\ Len(filtered_df) = 1) =>
        LET c == filtered_df[1].Confirmed.v
            tier == alert_table[1].Severity
        IN /\ tier \in {"Severe", "High", "Moderate"}
           /\ tier = "Severe" <=> c >= 2 * 10000
           /\ tier = "High" <=> (2 * 5000 <= c /\ c < 2 * 10000)
           /\ tier = "Moderate" <=> c < 2 * 5000
           /\ severity_order("Severe") = 0
           /\ severity_order("High") = 1
           /\ severity_order("Moderate") = 2

\* A negative count has been classified.
C5_Witness ==
    /\ pc = "done"
    /\ Len(filtered_df) = 1
    /\ filtered_df[1].Confirmed.v < 0
    /\ alert_table[1].Severity = "Moderate"

\* The display rank of a count, from the thresholds.
RankOf(c) == IF c >= 2 * 10000 THEN 0 ELSE IF c >= 2 * 5000 THEN 1 ELSE 2

\* Row a stands before row b in the order of the table.
Precedes(a, b) ==
    \/ RankOf(a.Confirmed.v) < RankOf(b.Confirmed.v)
    \/ /\ RankOf(a.Confirmed.v) = RankOf(b.Confirmed.v)
       /\ a.Confirmed.v > b.Confirmed.v

\* What the table shows of a row.
Shown(r) == <<r.District, r.State, r.Confirmed>>

Count(frame, key) == Cardinality({k \in DOMAIN frame : Shown(frame[k]) = key})

\* C7: the table holds min(10, rows of the subset) rows, all of the subset,
\* in the order Severe, High, Moderate and within a tier by Confirmed
\* descending, and no row left out precedes, in that order, a row of the table.
C7_AlertTableTopTen ==
    pc = "done" =>
        /\ Len(alert_table) = IF Len(filtered_df) < 10 THEN Len(filtered_df) ELSE 10
        /\ \A i \in DOMAIN alert_table : \A j \in DOMAIN alert_table :
               i < j => ~Precedes(alert_table[j], alert_table[i])
        /\ \A i \in DOMAIN alert_table :
               /\ Count(alert_table, Shown(alert_table[i]))
                      <= Count(filtered_df, Shown(alert_table[i]))
               /\ RankOf(alert_table[i].Confirmed.v) =
                      severity_order(alert_table[i].Severity)
        /\ \A k \in DOMAIN filtered_df :
               Count(alert_table, Shown(filtered_df[k]))
                   < Count(filtered_df, Shown(filtered_df[k]))
               => \A i \in DOMAIN alert_table :
                      ~Precedes(filtered_df[k], alert_table[i])

\* Eleven rows of two tiers: ten are shown, the Severe ones first, and a
\* Moderate one is left out.
C7_Witness ==
    /\ pc = "done"
    /\ Len(filtered_df) = 11
    /\ Len(alert_table) = 10
    /\ filtered_df[1].Confirmed = Num(3000)
    /\ filtered_df[11].Confirmed = Num(12000)
    /\ alert_table[1].Severity = "Severe"
    /\ alert_table[10].Severity = "Moderate"

\* The integer t is the sum s (in halves) cut toward zero.
CutTowardZero(t, s) ==
    IF s >= 0 THEN 2 * t <= s /\ s < 2 * t + 2
    ELSE 2 * t >= s /\ s > 2 * t - 2

SummedColumns == {"Confirmed", "Recovered", "Deceased", "Tested"}

\* The Date of the row is the selected calendar day.
OnSelectedDay(r) == ~r.Date.nat /\ r.Date.day = selected_date

\* C6: each total shown equals the sum of its column over the rows
\* of the subset, duplicates and rows of no dt_code counted, 0 for an empty
\* subset; with "All" the Confirmed total is the sum over the rows whose Date
\* is the selected day and the sum of the totals of the states.
C6_TotalsAreSums ==
    pc \in {"map", "severity", "done"} =>
        /\ \A col \in SummedColumns :
               2 * summary[col] = ColumnSum(filtered_df, col, Len(filtered_df))
        /\ filtered_df = <<>> => \A col \in SummedColumns : summary[col] = 0
        /\ selected_state = All =>
               LET onDate == Kept(df, OnSelectedDay, Len(df))
               IN /\ 2 * summary.Confirmed = ColumnSum(onDate, "Confirmed", Len(onDate))
                  /\ summary.Confirmed =
                         LET RECURSIVE T(_)
                             T(S) == IF S = {} THEN 0
                                     ELSE LET s == CHOOSE x \in S : TRUE
                                          IN Total(Filter(df, selected_date, s), "Confirmed")
                                             + T(S \ {s})
                         IN T(states(df) \ {All})

\* C8: once the loop has ended, a feature has an id, and its trimmed name is a
\* key of the map, only if its name is non-empty after trimming and its code
\* is present.
C8_OnlyNamedAndCodedFeatures ==
    (pc = "preprocess" /\ fi > Len(india_districts)) =>
        LET Named(f) == f.district # None /\ strip(f.district) # <<>>
            Coded(f) == f.dt_code # None
        IN /\ \A j \in DOMAIN india_districts :
                  india_districts[j].id # None =>
                      Named(india_districts[j]) /\ Coded(india_districts[j])
           /\ DOMAIN district_code_map \subseteq
                  {strip(cache_geojson[j].district) :
                      j \in {i \in DOMAIN cache_geojson :
                                Named(cache_geojson[i]) /\ Coded(cache_geojson[i])}}

\* C9: a file in which some Date cells, but not all, are malformed does not
\* end the run; its malformed rows are in no filtered frame.
C9_MalformedDatesDoNotAbort ==
    ((\E k \in DOMAIN cache_csv : cache_csv[k].Date.kind = "text")
     /\ (\E k \in DOMAIN cache_csv : cache_csv[k].Date.kind = "ts"))
    => /\ pc # "crashed"
       /\ Rendered => \A k \in DOMAIN filtered_df : ~filtered_df[k].Date.nat

\* The tier of a count on the thresholds.
TierOf(c) ==
    CASE RankOf(c) = 0 -> "Severe" [] RankOf(c) = 1 -> "High"
      [] RankOf(c) = 2 -> "Moderate"

\* The place of row j of the frame in the order of the table: behind the rows
\* that precede it and behind the rows of its rank and count that stand
\* before it in the frame.
PlaceOf(frame, j) ==
    1 + Cardinality({i \in DOMAIN frame :
                        \/ Precedes(frame[i], frame[j])
                        \/ ~Precedes(frame[j], frame[i]) /\ i < j})

\* The table of a frame: its first ten rows by place.
TableOf(frame) ==
    [p \in 1..(IF Len(frame) < 10 THEN Len(frame) ELSE 10) |->
        LET r == frame[CHOOSE j \in DOMAIN frame : PlaceOf(frame, j) = p]
        IN [District |-> r.District, State |-> r.State,
            Confirmed |-> r.Confirmed, Severity |-> TierOf(r.Confirmed.v)]]

\* C10: in every run that follows any runs, ended, raised or stopped, from
\* the end of the normalization on, the frame, the map and the features are
\* those of the first run and the frame and the filtered frame carry no
\* Severity and no severity_rank; the filtered frame, the totals and the
\* table of a run that ends are those of the first run's frame under the
\* criteria of this run; and a run that ends with the criteria of an earlier
\* run ends with its filtered frame, totals and table.
C10_RunsDependOnCriteriaOnly ==
    /\ (Normalized \/ (pc = "crashed" /\ snap # <<>>)) =>
           /\ snap = <<[df |-> df, map |-> district_code_map, geo |-> india_districts]>>
           /\ \A k \in DOMAIN df :
                  DOMAIN df[k] \cap {"Severity", "severity_rank"} = {}
           /\ \A k \in DOMAIN filtered_df :
                  DOMAIN filtered_df[k] \cap {"Severity", "severity_rank"} = {}
    /\ pc = "done" =>
           LET Keep(r) == /\ r.Date = Timestamp(selected_date, 0)
                          /\ (selected_state = All \/ r.State = selected_state)
               sub == Kept(snap[1].df, Keep, Len(snap[1].df))
           IN /\ filtered_df = sub
              /\ \A col \in SummedColumns :
                     CutTowardZero(summary[col], ColumnSum(sub, col, Len(sub)))
              /\ alert_table = TableOf(sub)
    /\ (pc = "done" /\ memo # <<>>
        /\ memo[1].outputs.criteria = <<selected_date, selected_state, selected_metric>>)
       => memo[1].outputs = Outputs

\* A run has ended with the criteria of an earlier run, rows in its table,
\* after a run that ended with other criteria, one that raised and one that
\* was stopped.
C10_Witness ==
    /\ pc = "done"
    /\ memo # <<>>
    /\ memo[1].outputs.criteria = <<selected_date, selected_state, selected_metric>>
    /\ memo[1].since = {"other", "raised", "stopped"}
    /\ selected_state # All
    /\ Len(alert_table) > 0

====
